---- MODULE Spec2Model ----
(***************************************************************************)
(* Model of src/app.py, the beer consumption analytics dashboard.          *)
(*                                                                         *)
(* app.py is a script that the dashboard runtime runs from top to bottom   *)
(* once when the session starts and once more after every change of a      *)
(* sidebar widget.  One run loads the (cached) spreadsheet, reads the two  *)
(* multiselects, filters the table and computes the views one after the    *)
(* other; an uncaught exception ends the run at the line that raised it.   *)
(*                                                                         *)
(* Representation                                                          *)
(*   - a DataFrame is a sequence of records (one record per row);          *)
(*   - a Series or an indexed frame produced by groupby is a function from *)
(*     its index to its values;                                            *)
(*   - a date is a day number, a Timedelta a number of days;               *)
(*   - money and quantities are integers;                                  *)
(*   - a float that can be NaN is a record [nan, num, den] (num/den);      *)
(*   - the namespace of one run of the script is the record `view`: a name *)
(*     the run never assigned is not in DOMAIN view.                       *)
(***************************************************************************)
EXTENDS Integers, Sequences, FiniteSets, TLC

VARIABLES
    df,         \* the table load_data() returns (app.py:30)
    centre,     \* value of the "Select Business Unit" multiselect (app.py:37)
    month,      \* value of the "Select Reporting Period" multiselect (app.py:43)
    view,       \* names assigned by the last run of the script (app.py:49-240)
    exception,  \* how the last run of the script ended
    row,        \* a Guest Summary row handed to segment (app.py:86)
    label       \* what segment returned for row (app.py:94)

vars == <<df, centre, month, view, exception, row, label>>

(***************************************************************************)
(* Bounds of the model.                                                    *)
(***************************************************************************)
MaxRows == 3        \* rows of the spreadsheet
MaxVisits == 7      \* distinct bills of a Guest Summary row given to segment

(***************************************************************************)
(* Policy constants of app.py.                                             *)
(***************************************************************************)
VIPSpend == 10000
VIPVisits == 6
RegularVisits == 3
InactiveDays == 30
RecentDays == 7
TopCustomers == 10
TopPreferences == 20

(***************************************************************************)
(* The line items a spreadsheet of the model is made of.  Bill 101 has two *)
(* line items (two brands on one bill); customer 9001 has four bills.      *)
(***************************************************************************)
LineItems ==
    { [Date |-> 0, Time |-> <<18, 30, 0>>, CustomerMobileNo |-> 9001,
       POSDescription |-> "Taproom", BillMonth |-> "Jan", BillNo |-> 101,
       GrossAmount |-> 4000, NetAmount |-> 3500, Quantity |-> 2,
       MenuGroupDescription |-> "Ale"],
      [Date |-> 0, Time |-> <<18, 30, 0>>, CustomerMobileNo |-> 9001,
       POSDescription |-> "Taproom", BillMonth |-> "Jan", BillNo |-> 101,
       GrossAmount |-> 1000, NetAmount |-> 900, Quantity |-> 1,
       MenuGroupDescription |-> "Lager"],
      [Date |-> 35, Time |-> <<21, 0, 0>>, CustomerMobileNo |-> 9001,
       POSDescription |-> "Taproom", BillMonth |-> "Feb", BillNo |-> 102,
       GrossAmount |-> 11000, NetAmount |-> 10000, Quantity |-> 5,
       MenuGroupDescription |-> "Lager"],
      [Date |-> 40, Time |-> <<13, 15, 0>>, CustomerMobileNo |-> 9001,
       POSDescription |-> "Brewpub", BillMonth |-> "Feb", BillNo |-> 103,
       GrossAmount |-> 3000, NetAmount |-> 2700, Quantity |-> 2,
       MenuGroupDescription |-> "Ale"],
      [Date |-> 5, Time |-> <<21, 45, 0>>, CustomerMobileNo |-> 9001,
       POSDescription |-> "Brewpub", BillMonth |-> "Jan", BillNo |-> 104,
       GrossAmount |-> 2000, NetAmount |-> 1800, Quantity |-> 1,
       MenuGroupDescription |-> "Ale"],
      [Date |-> 40, Time |-> <<18, 5, 0>>, CustomerMobileNo |-> 9002,
       POSDescription |-> "Taproom", BillMonth |-> "Feb", BillNo |-> 105,
       GrossAmount |-> 4000, NetAmount |-> 3500, Quantity |-> 3,
       MenuGroupDescription |-> "Lager"] }

\* The spreadsheets read_excel may return: 1..MaxRows line items, in any order.
Spreadsheets == UNION { [1..n -> LineItems] : n \in 1..MaxRows }

\* The business units and the reporting periods a spreadsheet can name.
Centres == { r.POSDescription : r \in LineItems }
Months == { r.BillMonth : r \in LineItems }

\* Keys in the ascending order groupby puts them in.
CustomerOrder == <<"9001", "9002">>
BrandOrder == <<"Ale", "Lager">>

\* The Guest Summary rows segment is tried on.
Spends == {0, 2000, 5000, 8000, 9999, 10000, 10001, 12000}
GuestRows == [visits : 0..MaxVisits, spend : Spends]

(***************************************************************************)
(* Helpers for tables.                                                     *)
(***************************************************************************)
RECURSIVE SumCol(_, _)
\* Series.sum of column col of table t.
SumCol(t, col) ==
    IF t = <<>> THEN 0 ELSE Head(t)[col] + SumCol(Tail(t), col)

RECURSIVE SumFn(_, _)
\* sum of the values f takes on the finite set S.
SumFn(f, S) ==
    IF S = {} THEN 0
    ELSE LET x == CHOOSE x \in S : TRUE IN f[x] + SumFn(f, S \ {x})

\* Series.unique / the keys of a groupby: the distinct values of column col.
unique(t, col) == { t[i][col] : i \in DOMAIN t }

\* Series.nunique.
nunique(t, col) == Cardinality(unique(t, col))

\* The rows of t whose column col is v (one group of a groupby).
Group(t, col, v) == SelectSeq(t, LAMBDA r : r[col] = v)

\* The keys of S in ascending order.
SortedKeys(S, order) == SelectSeq(order, LAMBDA k : k \in S)

\* Series.max of a column; the empty set stands for NaT (no maximum).
MaxOf(t, col) ==
    { v \in unique(t, col) : \A w \in unique(t, col) : w <= v }

\* The sequence t without its i-th element.
Remove(t, i) == SubSeq(t, 1, i - 1) \o SubSeq(t, i + 1, Len(t))

RECURSIVE sort_values(_, _)
\* DataFrame.sort_values(by=col, ascending=False): descending by col, rows
\* with equal values keep their order.
sort_values(t, col) ==
    IF t = <<>> THEN <<>>
    ELSE LET i == CHOOSE i \in DOMAIN t :
                      /\ \A j \in DOMAIN t : t[j][col] <= t[i][col]
                      /\ \A j \in DOMAIN t : j < i => t[j][col] < t[i][col]
         IN  <<t[i]>> \o sort_values(Remove(t, i), col)

\* DataFrame.head(n).
head(t, n) == SubSeq(t, 1, IF Len(t) < n THEN Len(t) ELSE n)

\* A float quotient: NaN when the denominator is 0 (numpy 0/0), else num/den.
Quotient(n, d) ==
    IF d = 0 THEN [nan |-> TRUE, num |-> 0, den |-> 0]
    ELSE [nan |-> FALSE, num |-> n, den |-> d]

(***************************************************************************)
(* LOAD DATA (app.py:19-30).                                               *)
(***************************************************************************)
DayNames ==
    <<"Monday", "Tuesday", "Wednesday", "Thursday", "Friday", "Saturday",
      "Sunday">>

\* Series.dt.day_name: day 0 of the model is a Monday.
day_name(date) == DayNames[(date % 7) + 1]

\* to_datetime(Time, format='%H:%M:%S').dt.hour
hour(time) == time[1]

\* load_data: the spreadsheet with the customer as a string and the derived
\* columns Day and Hour.
load_data(xlsx) ==
    [i \in DOMAIN xlsx |->
        [Date |-> xlsx[i].Date,
         Time |-> xlsx[i].Time,
         CustomerMobileNo |-> ToString(xlsx[i].CustomerMobileNo),
         POSDescription |-> xlsx[i].POSDescription,
         BillMonth |-> xlsx[i].BillMonth,
         BillNo |-> xlsx[i].BillNo,
         GrossAmount |-> xlsx[i].GrossAmount,
         NetAmount |-> xlsx[i].NetAmount,
         Quantity |-> xlsx[i].Quantity,
         MenuGroupDescription |-> xlsx[i].MenuGroupDescription,
         Day |-> day_name(xlsx[i].Date),
         Hour |-> hour(xlsx[i].Time)]]

(***************************************************************************)
(* SIDEBAR FILTERS (app.py:37-52).                                         *)
(***************************************************************************)
\* An empty selection taken to mean no restriction.
isin_or_all(v, values) == values = {} \/ v \in values

\* Series.isin(values), for one cell.
isin(v, values) == v \in values

\* The options, and the default, of the two multiselects.
centre_options(d) == unique(d, "POSDescription")
month_options(d) == unique(d, "BillMonth")

\* The reporting-period selection tested against the business-unit column.
filtered_df_month_on_centre(d, c, m) ==
    SelectSeq(d, LAMBDA r : isin(r.POSDescription, m) /\ isin(r.BillMonth, m))

\* filtered_df = df[df.POSDescription.isin(centre) & df['Bill Month'].isin(month)]
filtered_df(d, c, m) ==
    SelectSeq(d, LAMBDA r : isin(r.POSDescription, c) /\ isin(r.BillMonth, m))

(***************************************************************************)
(* KPI METRICS (app.py:63-72).                                             *)
(***************************************************************************)
total_revenue(f) == SumCol(f, "GrossAmount")

unique_guests(f) == nunique(f, "CustomerMobileNo")

\* value_counts of the customer column: the number of rows of each customer.
repeat_counts(f) ==
    [c \in unique(f, "CustomerMobileNo") |-> Len(Group(f, "CustomerMobileNo", c))]

\* (repeat_counts[repeat_counts > 1].count() / unique_guests) * 100
repeat_pct(f) ==
    Quotient(Cardinality({ c \in DOMAIN repeat_counts(f) : repeat_counts(f)[c] > 1 }) * 100,
             unique_guests(f))

(***************************************************************************)
(* CUSTOMER SEGMENTATION (app.py:81-105).                                  *)
(***************************************************************************)
\* The VIP test taken after the Regular test.
segment_regular_first(r) ==
    IF r.visits >= RegularVisits THEN "Regular"
    ELSE IF r.spend > VIPSpend \/ r.visits >= VIPVisits THEN "VIP"
    ELSE "Occasional"

segment(r) ==
    IF r.spend > VIPSpend \/ r.visits >= VIPVisits THEN "VIP"
    ELSE IF r.visits >= RegularVisits THEN "Regular"
    ELSE "Occasional"

\* groupby(customer).agg(visits=nunique(Bill No), spend=sum(Gross Amount))
\* .reset_index(), then the Segment column.
guest_metrics(f) ==
    LET keys == SortedKeys(unique(f, "CustomerMobileNo"), CustomerOrder)
        agg(c) == [visits |-> nunique(Group(f, "CustomerMobileNo", c), "BillNo"),
                   spend |-> SumCol(Group(f, "CustomerMobileNo", c), "GrossAmount")]
    IN  [i \in DOMAIN keys |->
            [CustomerMobileNo |-> keys[i],
             visits |-> agg(keys[i]).visits,
             spend |-> agg(keys[i]).spend,
             Segment |-> segment(agg(keys[i]))]]

\* guest_metrics['Segment'].value_counts()
seg_counts(gm) ==
    [s \in unique(gm, "Segment") |-> Len(Group(gm, "Segment", s))]

\* guest_metrics.merge(filtered_df[[customer, Gross Amount]], on=customer):
\* one row for every pair of a Guest Summary row and a filtered row of the
\* same customer, in the order of the Guest Summary.
RECURSIVE merge(_, _)
merge(gm, f) ==
    IF gm = <<>> THEN <<>>
    ELSE LET g == Head(gm)
             m == Group(f, "CustomerMobileNo", g.CustomerMobileNo)
         IN  [i \in DOMAIN m |->
                 [CustomerMobileNo |-> g.CustomerMobileNo,
                  visits |-> g.visits,
                  spend |-> g.spend,
                  Segment |-> g.Segment,
                  GrossAmount |-> m[i].GrossAmount]]
             \o merge(Tail(gm), f)

\* The guest's total spend summed instead of the row's gross amount.
seg_rev_spend(gm, f) ==
    [s \in unique(merge(gm, f), "Segment") |->
        SumCol(Group(merge(gm, f), "Segment", s), "spend")]

\* merge(...).groupby('Segment')['Gross Amount'].sum()
seg_rev(gm, f) ==
    [s \in unique(merge(gm, f), "Segment") |->
        SumCol(Group(merge(gm, f), "Segment", s), "GrossAmount")]

(***************************************************************************)
(* CENTRE-WISE BEER PREFERENCE (app.py:114-121).                           *)
(***************************************************************************)
\* pivot_table(index=centre, columns=brand, values=customer, nunique,
\* fill_value=0): a centre and a brand that never meet give 0.
heatmap_data(f) ==
    [p \in unique(f, "POSDescription") |->
        [b \in unique(f, "MenuGroupDescription") |->
            nunique(Group(Group(f, "POSDescription", p), "MenuGroupDescription", b),
                    "CustomerMobileNo")]]

(***************************************************************************)
(* VISIT FREQUENCY (app.py:132-133).                                       *)
(***************************************************************************)
visit_freq(f) ==
    [c \in unique(f, "CustomerMobileNo") |->
        nunique(Group(f, "CustomerMobileNo", c), "BillNo")]

\* visit_freq.value_counts().sort_index()
visit_dist(f) ==
    [v \in { visit_freq(f)[c] : c \in DOMAIN visit_freq(f) } |->
        Cardinality({ c \in DOMAIN visit_freq(f) : visit_freq(f)[c] = v })]

(***************************************************************************)
(* PEAK DAY & TIME (app.py:148-153).                                       *)
(***************************************************************************)
day_sales(f) ==
    [d \in unique(f, "Day") |-> SumCol(Group(f, "Day", d), "NetAmount")]

hour_sales(f) ==
    [h \in unique(f, "Hour") |-> SumCol(Group(f, "Hour", h), "NetAmount")]

(***************************************************************************)
(* CUSTOMER LIFETIME VALUE (app.py:163-174).                               *)
(***************************************************************************)
\* groupby(customer).agg(visits=nunique(Bill No), total_spend=sum(NetAmount)),
\* as rows in the order of the customers.
clv(f) ==
    LET keys == SortedKeys(unique(f, "CustomerMobileNo"), CustomerOrder)
    IN  [i \in DOMAIN keys |->
            [CustomerMobileNo |-> keys[i],
             visits |-> nunique(Group(f, "CustomerMobileNo", keys[i]), "BillNo"),
             total_spend |-> SumCol(Group(f, "CustomerMobileNo", keys[i]), "NetAmount")]]

\* clv['total_spend'].mean(): NaN for no customer.
average_clv(f) == Quotient(SumCol(clv(f), "total_spend"), Len(clv(f)))

\* clv.sort_values(by='total_spend', ascending=False).head(10)
top_clv(f) == head(sort_values(clv(f), "total_spend"), TopCustomers)

(***************************************************************************)
(* RETENTION INSIGHTS (app.py:183-191).                                    *)
(***************************************************************************)
\* groupby(customer)['Date'].max().reset_index()
last_visit(f) ==
    LET keys == SortedKeys(unique(f, "CustomerMobileNo"), CustomerOrder)
    IN  [i \in DOMAIN keys |->
            [CustomerMobileNo |-> keys[i],
             Date |-> CHOOSE d \in MaxOf(Group(f, "CustomerMobileNo", keys[i]), "Date") : TRUE]]

\* The comparison of the inactive set turned round.
inactive_after(lv, f) ==
    SelectSeq(lv, LAMBDA r : \E mx \in MaxOf(f, "Date") : r.Date > mx - InactiveDays)

\* last_visit[last_visit.Date < filtered_df.Date.max() - Timedelta(days=30)];
\* a comparison with NaT is false.
inactive(lv, f) ==
    SelectSeq(lv, LAMBDA r : \E mx \in MaxOf(f, "Date") : r.Date < mx - InactiveDays)

\* last_visit[last_visit.Date >= filtered_df.Date.max() - Timedelta(days=7)]
recent(lv, f) ==
    SelectSeq(lv, LAMBDA r : \E mx \in MaxOf(f, "Date") : r.Date >= mx - RecentDays)

(***************************************************************************)
(* BEER BRAND INSIGHTS (app.py:206-224).                                   *)
(***************************************************************************)
\* groupby(brand).agg(Unique_Guests, Quantity_Sold, Revenue).reset_index()
\* .sort_values(by='Revenue', ascending=False)
brand_summary(f) ==
    LET keys == SortedKeys(unique(f, "MenuGroupDescription"), BrandOrder)
        rows == [i \in DOMAIN keys |->
                    LET g == Group(f, "MenuGroupDescription", keys[i])
                    IN  [MenuGroupDescription |-> keys[i],
                         Unique_Guests |-> nunique(g, "CustomerMobileNo"),
                         Quantity_Sold |-> SumCol(g, "Quantity"),
                         Revenue |-> SumCol(g, "GrossAmount")]]
    IN  sort_values(rows, "Revenue")

\* DataFrame.iloc[i] for i = 0 and i = -1 raises IndexError on an empty frame.
iloc_raises(t) == t = <<>>

\* brand_summary.iloc[0]['MenuGroupDescription']
top_brand(bs) == bs[1].MenuGroupDescription

\* brand_summary.iloc[-1]['MenuGroupDescription']
low_brand(bs) == bs[Len(bs)].MenuGroupDescription

(***************************************************************************)
(* GUEST BRAND PREFERENCE (app.py:233-240).                                *)
(***************************************************************************)
\* The (customer, brand) keys in ascending order.
PairOrder ==
    [i \in 1..(Len(CustomerOrder) * Len(BrandOrder)) |->
        <<CustomerOrder[((i - 1) \div Len(BrandOrder)) + 1],
          BrandOrder[((i - 1) % Len(BrandOrder)) + 1]>>]

\* The line items of customer c and brand b.
PairGroup(f, c, b) ==
    Group(Group(f, "CustomerMobileNo", c), "MenuGroupDescription", b)

\* groupby([customer, brand]).size().reset_index(name='Orders'): one row for
\* every pair that occurs.
guest_pref(f) ==
    LET keys == SelectSeq(PairOrder, LAMBDA k : PairGroup(f, k[1], k[2]) # <<>>)
    IN  [i \in DOMAIN keys |->
            [CustomerMobileNo |-> keys[i][1],
             MenuGroupDescription |-> keys[i][2],
             Orders |-> Len(PairGroup(f, keys[i][1], keys[i][2]))]]

\* guest_pref.sort_values(by='Orders', ascending=False).head(20)
top_guest_pref(f) == head(sort_values(guest_pref(f), "Orders"), TopPreferences)

(***************************************************************************)
(* One run of the script (app.py:49-240) on table d with the selections c  *)
(* and m: the names it assigns.  The run ends at app.py:220 when Brand     *)
(* Summary is empty; the names of app.py:220-240 are then never assigned.  *)
(* On an empty table the lines before it go through: 0/0 at app.py:67 is   *)
(* numpy's NaN, apply(segment, axis=1) at app.py:94 gives an empty Segment *)
(* column (pandas 2), and every groupby gives an empty result.             *)
(***************************************************************************)
AllViews ==
    { "filtered_df", "total_revenue", "unique_guests", "repeat_pct",
      "guest_metrics", "seg_counts", "seg_rev", "heatmap_data", "visit_dist",
      "day_sales", "hour_sales", "clv", "average_clv", "top_clv",
      "last_visit", "inactive", "recent", "brand_summary", "top_brand",
      "low_brand", "guest_pref", "top_guest_pref" }

script(d, c, m) ==
    LET f == filtered_df(d, c, m)
        upto_line_219 ==
            [filtered_df |-> f,
             total_revenue |-> total_revenue(f),
             unique_guests |-> unique_guests(f),
             repeat_pct |-> repeat_pct(f),
             guest_metrics |-> guest_metrics(f),
             seg_counts |-> seg_counts(guest_metrics(f)),
             seg_rev |-> seg_rev(guest_metrics(f), f),
             heatmap_data |-> heatmap_data(f),
             visit_dist |-> visit_dist(f),
             day_sales |-> day_sales(f),
             hour_sales |-> hour_sales(f),
             clv |-> clv(f),
             average_clv |-> average_clv(f),
             top_clv |-> top_clv(f),
             last_visit |-> last_visit(f),
             inactive |-> inactive(last_visit(f), f),
             recent |-> recent(last_visit(f), f),
             brand_summary |-> brand_summary(f)]
        from_line_220 ==
            [top_brand |-> top_brand(brand_summary(f)),
             low_brand |-> low_brand(brand_summary(f)),
             guest_pref |-> guest_pref(f),
             top_guest_pref |-> top_guest_pref(f)]
    IN  IF iloc_raises(brand_summary(f)) THEN upto_line_219
        ELSE upto_line_219 @@ from_line_220

\* How that run ends.
script_exception(d, c, m) ==
    IF iloc_raises(brand_summary(filtered_df(d, c, m))) THEN "IndexError" ELSE "none"

(***************************************************************************)
(* The dashboard session.                                                  *)
(***************************************************************************)
NoRow == [visits |-> 0, spend |-> 0]

\* First run: the spreadsheet is loaded and both multiselects hold their
\* default, every value of their column.
Init ==
    /\ \E xlsx \in Spreadsheets : df = load_data(xlsx)
    /\ centre = centre_options(df)
    /\ month = month_options(df)
    /\ view = script(df, centre, month)
    /\ exception = script_exception(df, centre, month)
    /\ row = NoRow
    /\ label = ""

\* The run after a change of the month multiselect takes the selection the
\* widget held before the change.
SelectMonth_lag(m) ==
    /\ m \subseteq month_options(df)
    /\ month' = m
    /\ view' = script(df, centre, month)
    /\ exception' = script_exception(df, centre, month)
    /\ UNCHANGED <<df, centre, row, label>>

\* The user changes the business units selected: the script runs again.
SelectCentre(c) ==
    /\ c \subseteq centre_options(df)
    /\ centre' = c
    /\ view' = script(df, c, month)
    /\ exception' = script_exception(df, c, month)
    /\ UNCHANGED <<df, month, row, label>>

\* The user changes the reporting periods selected: the script runs again.
SelectMonth(m) ==
    /\ m \subseteq month_options(df)
    /\ month' = m
    /\ view' = script(df, centre, m)
    /\ exception' = script_exception(df, centre, m)
    /\ UNCHANGED <<df, centre, row, label>>

Next ==
    \/ \E c \in SUBSET Centres : SelectCentre(c)
    \/ \E m \in SUBSET Months : SelectMonth(m)

Spec == Init /\ [][Next]_vars

(***************************************************************************)
(* Segment Assignment alone: segment applied to one Guest Summary row.     *)
(***************************************************************************)
InitSegment ==
    /\ df = <<>>
    /\ centre = {}
    /\ month = {}
    /\ view = <<>>
    /\ exception = "none"
    /\ row \in GuestRows
    /\ label = ""

\* guest_metrics.apply(segment, axis=1), for one row.
ApplySegment ==
    /\ label = ""
    /\ label' = segment(row)
    /\ UNCHANGED <<df, centre, month, view, exception, row>>

NextSegment == ApplySegment

SpecSegment == InitSegment /\ [][NextSegment]_vars

(***************************************************************************)
(* Properties.                                                             *)
(***************************************************************************)
Segments == {"VIP", "Regular", "Occasional"}

\* The number of rows of table t equal to r.
Count(t, r) == Len(SelectSeq(t, LAMBDA x : x = r))

\* The rows of table t, as a set.
RowsOf(t) == { t[i] : i \in DOMAIN t }

\* C1: segment classifies a Guest Summary row by the ordered rule: spend >
\* 10000 or visits >= 6 gives VIP, otherwise visits >= 3 gives Regular,
\* otherwise Occasional; the result is one of the three labels, and VIP wins
\* when both the VIP and the Regular condition hold.
C1_SegmentOrderedRule ==
    label # "" =>
        /\ label \in Segments
        /\ (row.spend > 10000 \/ row.visits >= 6) => label = "VIP"
        /\ (~(row.spend > 10000 \/ row.visits >= 6) /\ row.visits >= 3)
               => label = "Regular"
        /\ (~(row.spend > 10000 \/ row.visits >= 6) /\ row.visits < 3)
               => label = "Occasional"

\* Both conditions hold (visits = 6, spend = 5000) and the label is VIP.
C1_Witness ==
    row = [visits |-> 6, spend |-> 5000] /\ label = "VIP"

\* C2: the filtered table holds exactly the rows of df whose business unit is
\* selected and whose reporting period is selected (each as often as df holds
\* it), so an empty selection on either filter gives zero rows.
C2_FilterExact ==
    /\ RowsOf(view.filtered_df) \subseteq RowsOf(df)
    /\ \A r \in RowsOf(df) :
           Count(view.filtered_df, r) =
               IF r.POSDescription \in centre /\ r.BillMonth \in month
               THEN Count(df, r) ELSE 0
    /\ (centre = {} \/ month = {}) => Len(view.filtered_df) = 0

\* No business unit selected, every period selected: no row is left.
C2_Witness ==
    /\ centre = {}
    /\ Cardinality(month) = 2
    /\ Len(df) = MaxRows
    /\ view.filtered_df = <<>>

\* C3: with every observed business unit and every observed reporting period
\* selected, the filtered table has as many rows as the loaded table.
C3_DefaultSelectionKeepsAll ==
    (/\ centre = { df[i].POSDescription : i \in DOMAIN df }
     /\ month = { df[i].BillMonth : i \in DOMAIN df })
        => Len(view.filtered_df) = Len(df)

\* The default selection over two business units and two periods.
C3_Witness ==
    /\ centre = { df[i].POSDescription : i \in DOMAIN df }
    /\ month = { df[i].BillMonth : i \in DOMAIN df }
    /\ Cardinality(centre) = 2
    /\ Cardinality(month) = 2
    /\ Len(view.filtered_df) = MaxRows

\* The segment Guest Summary gives the customer of a filtered row.
SegmentOfCustomer(c) ==
    { view.guest_metrics[i].Segment :
        i \in { j \in DOMAIN view.guest_metrics :
                  view.guest_metrics[j].CustomerMobileNo = c } }

\* C4: the Segment revenue values add up to the KPI total revenue, and each
\* segment's value is the gross amount of the filtered rows of the customers
\* of that segment: every filtered row is counted in exactly one segment.
C4_SegmentRevenuePartition ==
    /\ DOMAIN view.seg_rev \subseteq Segments
    /\ SumFn(view.seg_rev, DOMAIN view.seg_rev) = view.total_revenue
    /\ view.total_revenue = SumCol(view.filtered_df, "GrossAmount")
    /\ \A i \in DOMAIN view.filtered_df :
           Cardinality(SegmentOfCustomer(view.filtered_df[i].CustomerMobileNo)) = 1
    /\ \A s \in Segments :
           (IF s \in DOMAIN view.seg_rev THEN view.seg_rev[s] ELSE 0) =
               SumCol(SelectSeq(view.filtered_df,
                                LAMBDA r : s \in SegmentOfCustomer(r.CustomerMobileNo)),
                      "GrossAmount")

\* Two segments, one of them with a customer of several rows.
C4_Witness ==
    /\ Cardinality(DOMAIN view.seg_rev) = 2
    /\ Len(view.filtered_df) = 3
    /\ Len(view.guest_metrics) = 2

\* C5: with zero guests in the filtered table the repeat-guest percentage is
\* a defined value (0% or N/A), not the result of a division by zero.
C5_ZeroGuestsGuarded ==
    view.unique_guests = 0 => ~view.repeat_pct.nan

\* C6: with an empty selection the run completes without error and every
\* view, the top/low brand banners included, is produced.
C6_EmptySelectionRenders ==
    (centre = {} \/ month = {}) =>
        exception = "none" /\ AllViews \subseteq DOMAIN view

\* C7: when computing the top/low brand fails, the views after it in the
\* run (guest-brand preference) are still computed.
C7_FailureIsolated ==
    exception = "IndexError" =>
        {"guest_pref", "top_guest_pref"} \subseteq DOMAIN view

\* The customers of the filtered table with more than one distinct bill.
RepeatByBills ==
    { c \in unique(view.filtered_df, "CustomerMobileNo") :
        Cardinality({ view.filtered_df[i].BillNo :
                        i \in { j \in DOMAIN view.filtered_df :
                                  view.filtered_df[j].CustomerMobileNo = c } }) > 1 }

\* C8: the repeat-guest percentage is the number of customers with more than
\* one distinct bill over the number of distinct customers; a customer with
\* one bill of several line items is not a repeat guest.
C8_RepeatCountsBills ==
    view.unique_guests > 0 =>
        /\ view.repeat_pct.num = Cardinality(RepeatByBills) * 100
        /\ view.repeat_pct.den =
               Cardinality(unique(view.filtered_df, "CustomerMobileNo"))

\* The maximum date of the filtered table (no element when it is empty).
FilteredMaxDate ==
    { view.filtered_df[i].Date : i \in
        { j \in DOMAIN view.filtered_df :
            \A k \in DOMAIN view.filtered_df :
                view.filtered_df[k].Date <= view.filtered_df[j].Date } }

\* C9: no customer is in both the inactive and the recent set; each customer
\* of the filtered table has one last-visit row, holding the latest date of
\* that customer; inactive is last visit < max - 30 and recent is last visit
\* >= max - 7, max being the maximum date of the current filtered table.
C9_RetentionDisjoint ==
    /\ unique(view.inactive, "CustomerMobileNo")
           \cap unique(view.recent, "CustomerMobileNo") = {}
    /\ \A i, j \in DOMAIN view.last_visit :
           view.last_visit[i].CustomerMobileNo = view.last_visit[j].CustomerMobileNo
               => i = j
    /\ unique(view.last_visit, "CustomerMobileNo")
           = unique(view.filtered_df, "CustomerMobileNo")
    /\ \A i \in DOMAIN view.last_visit :
           /\ \E k \in DOMAIN view.filtered_df :
                  /\ view.filtered_df[k].CustomerMobileNo = view.last_visit[i].CustomerMobileNo
                  /\ view.filtered_df[k].Date = view.last_visit[i].Date
           /\ \A k \in DOMAIN view.filtered_df :
                  view.filtered_df[k].CustomerMobileNo = view.last_visit[i].CustomerMobileNo
                      => view.filtered_df[k].Date <= view.last_visit[i].Date
    /\ RowsOf(view.inactive) =
           { r \in RowsOf(view.last_visit) :
               \E mx \in FilteredMaxDate : r.Date < mx - 30 }
    /\ RowsOf(view.recent) =
           { r \in RowsOf(view.last_visit) :
               \E mx \in FilteredMaxDate : r.Date >= mx - 7 }

\* After a filter change, one customer is inactive and another recent.
C9_Witness ==
    /\ Len(view.inactive) = 1
    /\ Len(view.recent) = 1
    /\ Len(view.filtered_df) < Len(df)
    /\ view.inactive[1].CustomerMobileNo # view.recent[1].CustomerMobileNo

\* C10: in every state the names the page shows are those one run of the
\* script on the loaded table and the current selection assigns, with the
\* values that run gives them (nothing is kept from an earlier selection),
\* and no step changes the loaded table.
C10_ViewsFollowSelection ==
    /\ [](/\ view = script(df, centre, month)
          /\ exception = script_exception(df, centre, month))
    /\ [][df' = df]_vars

\* Both selections were narrowed and the run went through.
C10_Witness ==
    /\ centre # centre_options(df)
    /\ month # month_options(df)
    /\ exception = "none"
    /\ AllViews \subseteq DOMAIN view
    /\ Len(view.filtered_df) < Len(df)
====
